---- MODULE Spec2Model ----
(***************************************************************************)
(* Model of dm-data-type-converter (src/main.py): the DataTypeConverter    *)
(* class (to_hex, to_base64, to_md5, randomly_convert) and the command     *)
(* line entry point main().                                                *)
(*                                                                         *)
(* A text (Python str) is a sequence of Unicode code points, a bytes value *)
(* is a sequence of naturals below 256.  Text produced by the program is   *)
(* a sequence of code points as well, e.g. "0x2a" is <<48, 120, 50, 97>>.  *)
(***************************************************************************)
EXTENDS Integers, Sequences, FiniteSets, TLC

\* Longest text drawn as an input.
MaxLen == 2
\* Largest magnitude of an integer handed to the converter directly.
MaxInt == 300

(***************************************************************************)
(* Input alphabet: '-', '2', '4', 'a', U+00E9 (two UTF-8 bytes) and the     *)
(* lone surrogate U+DC80, which a str can hold (argv bytes that are not    *)
(* UTF-8 arrive as surrogates) and which has no UTF-8 encoding.            *)
(***************************************************************************)
Alphabet == {45, 50, 52, 97, 233, 56448}

RECURSIVE TextsOfLen(_)
TextsOfLen(n) ==
  IF n = 0 THEN {<<>>}
  ELSE {Append(s, c) : s \in TextsOfLen(n - 1), c \in Alphabet}

Texts == UNION {TextsOfLen(n) : n \in 0..MaxLen}

\* Concatenation of a sequence of sequences.
RECURSIVE Flatten(_)
Flatten(ss) == IF ss = <<>> THEN <<>> ELSE Head(ss) \o Flatten(Tail(ss))

(***************************************************************************)
(* str.encode('utf-8') and bytes.decode('utf-8')                           *)
(***************************************************************************)
IsSurrogate(c) == c >= 55296 /\ c <= 57343

\* The strict UTF-8 codec refuses surrogates (UnicodeEncodeError).
Encodable(s) == \A i \in 1..Len(s) : ~IsSurrogate(s[i])

Utf8OfChar(c) ==
  IF c < 128 THEN <<c>>
  ELSE IF c < 2048 THEN <<192 + (c \div 64), 128 + (c % 64)>>
  ELSE IF c < 65536
    THEN <<224 + (c \div 4096), 128 + ((c \div 64) % 64), 128 + (c % 64)>>
  ELSE <<240 + (c \div 262144), 128 + ((c \div 4096) % 64),
         128 + ((c \div 64) % 64), 128 + (c % 64)>>

\* The bytes of an encodable text.
Utf8Encode(s) == Flatten([i \in 1..Len(s) |-> Utf8OfChar(s[i])])

IsCont(b) == b >= 128 /\ b < 192

\* Length of the well-formed UTF-8 sequence starting at byte i of bs, 0 if
\* there is none (bad lead byte, truncated, overlong, surrogate, too large).
Utf8SeqLen(bs, i) ==
  LET b == bs[i]
      n == Len(bs)
  IN IF b < 128 THEN 1
     ELSE IF b >= 194 /\ b < 224 /\ i + 1 <= n /\ IsCont(bs[i + 1]) THEN 2
     ELSE IF b >= 224 /\ b < 240 /\ i + 2 <= n
             /\ IsCont(bs[i + 1]) /\ IsCont(bs[i + 2])
             /\ (b = 224 => bs[i + 1] >= 160)
             /\ (b = 237 => bs[i + 1] < 160) THEN 3
     ELSE IF b >= 240 /\ b < 245 /\ i + 3 <= n
             /\ IsCont(bs[i + 1]) /\ IsCont(bs[i + 2]) /\ IsCont(bs[i + 3])
             /\ (b = 240 => bs[i + 1] >= 144)
             /\ (b = 244 => bs[i + 1] < 144) THEN 4
     ELSE 0

Utf8CharAt(bs, i, k) ==
  IF k = 1 THEN bs[i]
  ELSE IF k = 2 THEN (bs[i] - 192) * 64 + (bs[i + 1] - 128)
  ELSE IF k = 3
    THEN (bs[i] - 224) * 4096 + (bs[i + 1] - 128) * 64 + (bs[i + 2] - 128)
  ELSE (bs[i] - 240) * 262144 + (bs[i + 1] - 128) * 4096
       + (bs[i + 2] - 128) * 64 + (bs[i + 3] - 128)

RECURSIVE Utf8ValidFrom(_, _)
Utf8ValidFrom(bs, i) ==
  IF i > Len(bs) THEN TRUE
  ELSE LET k == Utf8SeqLen(bs, i)
       IN IF k = 0 THEN FALSE ELSE Utf8ValidFrom(bs, i + k)

RECURSIVE Utf8DecodeFrom(_, _)
Utf8DecodeFrom(bs, i) ==
  IF i > Len(bs) THEN <<>>
  ELSE LET k == Utf8SeqLen(bs, i)
       IN <<Utf8CharAt(bs, i, k)>> \o Utf8DecodeFrom(bs, i + k)

\* bytes.decode('utf-8') of well-formed UTF-8.
Utf8Decode(bs) == Utf8DecodeFrom(bs, 1)

(***************************************************************************)
(* hex(int) and bytes.hex()                                                *)
(***************************************************************************)
\* Code point of the lowercase hexadecimal digit of value d.
HexDigit(d) == IF d < 10 THEN 48 + d ELSE 87 + d

RECURSIVE HexDigits(_)
HexDigits(n) ==
  IF n < 16 THEN <<HexDigit(n)>>
  ELSE Append(HexDigits(n \div 16), HexDigit(n % 16))

\* Variant: "0x" glued in front of the signed digits.
PyHexSignInside(n) ==
  <<48, 120>> \o (IF n < 0 THEN <<45>> ELSE <<>>)
    \o HexDigits(IF n < 0 THEN 0 - n ELSE n)

\* The builtin hex(n): an optional '-', then "0x", then the digits of |n|.
PyHex(n) ==
  IF n < 0 THEN <<45, 48, 120>> \o HexDigits(0 - n)
  ELSE <<48, 120>> \o HexDigits(n)

\* bytes.hex(): two lowercase digits per byte, nothing in between.
BytesHex(bs) ==
  Flatten([i \in 1..Len(bs) |-> <<HexDigit(bs[i] \div 16), HexDigit(bs[i] % 16)>>])

(***************************************************************************)
(* base64.b64encode                                                        *)
(***************************************************************************)
B64Char(v) ==
  IF v < 26 THEN 65 + v
  ELSE IF v < 52 THEN 97 + (v - 26)
  ELSE IF v < 62 THEN 48 + (v - 52)
  ELSE IF v = 62 THEN 43
  ELSE 47

RECURSIVE B64EncodeFrom(_, _)
B64EncodeFrom(bs, i) ==
  LET rest == Len(bs) - i + 1
  IN IF rest <= 0 THEN <<>>
     ELSE IF rest = 1
       THEN <<B64Char(bs[i] \div 4), B64Char((bs[i] % 4) * 16), 61, 61>>
     ELSE IF rest = 2
       THEN <<B64Char(bs[i] \div 4),
              B64Char((bs[i] % 4) * 16 + (bs[i + 1] \div 16)),
              B64Char((bs[i + 1] % 16) * 4), 61>>
     ELSE <<B64Char(bs[i] \div 4),
            B64Char((bs[i] % 4) * 16 + (bs[i + 1] \div 16)),
            B64Char((bs[i + 1] % 16) * 4 + (bs[i + 2] \div 64)),
            B64Char(bs[i + 2] % 64)>> \o B64EncodeFrom(bs, i + 3)

\* Variant: the padding left off.
B64EncodeNoPad(bs) == SelectSeq(B64EncodeFrom(bs, 1), LAMBDA c : c # 61)

B64Encode(bs) == B64EncodeFrom(bs, 1)

(***************************************************************************)
(* hashlib.md5(...).hexdigest()  (RFC 1321).  A 32-bit word is a pair      *)
(* <<high 16 bits, low 16 bits>>.                                          *)
(***************************************************************************)
RECURSIVE And16(_, _)
And16(a, b) ==
  IF a = 0 \/ b = 0 THEN 0
  ELSE (a % 2) * (b % 2) + 2 * And16(a \div 2, b \div 2)

Or16(a, b) == a + b - And16(a, b)
Xor16(a, b) == a + b - 2 * And16(a, b)

And32(x, y) == <<And16(x[1], y[1]), And16(x[2], y[2])>>
Or32(x, y) == <<Or16(x[1], y[1]), Or16(x[2], y[2])>>
Xor32(x, y) == <<Xor16(x[1], y[1]), Xor16(x[2], y[2])>>
Not32(x) == <<65535 - x[1], 65535 - x[2]>>

Add32(x, y) ==
  LET lo == x[2] + y[2]
  IN <<(x[1] + y[1] + (lo \div 65536)) % 65536, lo % 65536>>

\* Rotate left by s, 0 <= s < 32.
RotL32(x, s) ==
  LET y == IF s >= 16 THEN <<x[2], x[1]>> ELSE x
      r == s % 16
      p == 2 ^ r
      q == 2 ^ (16 - r)
  IN <<(y[1] % q) * p + (y[2] \div q), (y[2] % q) * p + (y[1] \div q)>>

Md5S ==
  <<7, 12, 17, 22, 7, 12, 17, 22, 7, 12, 17, 22, 7, 12, 17, 22,
    5, 9, 14, 20, 5, 9, 14, 20, 5, 9, 14, 20, 5, 9, 14, 20,
    4, 11, 16, 23, 4, 11, 16, 23, 4, 11, 16, 23, 4, 11, 16, 23,
    6, 10, 15, 21, 6, 10, 15, 21, 6, 10, 15, 21, 6, 10, 15, 21>>

Md5K ==
  <<   <<55146, 42104>>, <<59591, 46934>>, <<9248, 28891>>, <<49597, 52974>>,
       <<62844, 4015>>, <<18311, 50730>>, <<43056, 17939>>, <<64838, 38145>>,
       <<27008, 39128>>, <<35652, 63407>>, <<65535, 23473>>, <<35164, 55230>>,
       <<27536, 4386>>, <<64920, 29075>>, <<42617, 17294>>, <<18868, 2081>>,
       <<63006, 9570>>, <<49216, 45888>>, <<9822, 23121>>, <<59830, 51114>>,
       <<54831, 4189>>, <<580, 5203>>, <<55457, 59009>>, <<59347, 64456>>,
       <<8673, 52710>>, <<49975, 2006>>, <<62677, 3463>>, <<17754, 5357>>,
       <<43491, 59653>>, <<64751, 41976>>, <<26479, 729>>, <<36138, 19594>>,
       <<65530, 14658>>, <<34673, 63105>>, <<28061, 24866>>, <<64997, 14348>>,
       <<42174, 59972>>, <<19422, 53161>>, <<63163, 19296>>, <<48831, 48240>>,
       <<10395, 32454>>, <<60065, 10234>>, <<54511, 12421>>, <<1160, 7429>>,
       <<55764, 53305>>, <<59099, 39397>>, <<8098, 31992>>, <<50348, 22117>>,
       <<62505, 8772>>, <<17194, 65431>>, <<43924, 9127>>, <<64659, 41017>>,
       <<25947, 22979>>, <<36620, 52370>>, <<65519, 62589>>, <<34180, 24017>>,
       <<28584, 32335>>, <<65068, 59104>>, <<41729, 17172>>, <<19976, 4513>>,
       <<63315, 32386>>, <<48442, 62005>>, <<10967, 53947>>, <<60294, 54161>> >>

\* The state a fresh hash object starts from.
Md5Init == << <<26437, 8961>>, <<61389, 43913>>, <<39098, 56574>>, <<4146, 21622>> >>

\* The message, 0x80, zeros up to 56 modulo 64, the bit length in 8 bytes,
\* least significant first.
Md5Pad(bs) ==
  LET n == Len(bs)
      zeros == (119 - (n % 64)) % 64
      bits == 8 * n
  IN bs \o <<128>> \o [i \in 1..zeros |-> 0]
        \o [k \in 1..8 |-> IF k > 4 THEN 0 ELSE (bits \div (256 ^ (k - 1))) % 256]

\* Word g (0..15) of the 64-byte block starting after byte off.
Md5Word(p, off, g) ==
  LET b == off + 4 * g
  IN <<p[b + 3] + 256 * p[b + 4], p[b + 1] + 256 * p[b + 2]>>

\* Operation i (0..63) on the state st = <<A, B, C, D>>.
Md5Step(st, p, off, i) ==
  LET A == st[1]
      B == st[2]
      C == st[3]
      D == st[4]
      f == IF i < 16 THEN Or32(And32(B, C), And32(Not32(B), D))
           ELSE IF i < 32 THEN Or32(And32(D, B), And32(Not32(D), C))
           ELSE IF i < 48 THEN Xor32(Xor32(B, C), D)
           ELSE Xor32(C, Or32(B, Not32(D)))
      g == IF i < 16 THEN i
           ELSE IF i < 32 THEN (5 * i + 1) % 16
           ELSE IF i < 48 THEN (3 * i + 5) % 16
           ELSE (7 * i) % 16
      t == Add32(Add32(Add32(f, A), Md5K[i + 1]), Md5Word(p, off, g))
  IN <<D, Add32(B, RotL32(t, Md5S[i + 1])), B, C>>

\* Every component of a hash state is a 32-bit word.
IsMd5State(st) ==
  \A j \in 1..4 : st[j][1] \in 0..65535 /\ st[j][2] \in 0..65535

\* Operations i..63 on the block starting after off, from the state st.
RECURSIVE Md5Rounds(_, _, _, _)
Md5Rounds(st, p, off, i) ==
  IF i = 64 \/ ~IsMd5State(st) THEN st
  ELSE Md5Rounds(Md5Step(st, p, off, i), p, off, i + 1)

\* The state after the first k blocks of the padded message p.
RECURSIVE Md5Blocks(_, _)
Md5Blocks(p, k) ==
  IF k = 0 THEN Md5Init
  ELSE LET st == Md5Blocks(p, k - 1)
           r == Md5Rounds(st, p, 64 * (k - 1), 0)
       IN <<Add32(st[1], r[1]), Add32(st[2], r[2]),
            Add32(st[3], r[3]), Add32(st[4], r[4])>>

\* The four bytes of a word, least significant first.
WordBytes(x) == <<x[2] % 256, x[2] \div 256, x[1] % 256, x[1] \div 256>>

\* digest(): 16 bytes.
Md5Digest(bs) ==
  LET p == Md5Pad(bs)
      st == Md5Blocks(p, Len(p) \div 64)
  IN WordBytes(st[1]) \o WordBytes(st[2]) \o WordBytes(st[3]) \o WordBytes(st[4])

\* Variant: each digest byte printed without its leading zero.
Md5HexDigestNoPad(bs) ==
  Flatten([i \in 1..16 |-> HexDigits(Md5Digest(bs)[i])])

\* hexdigest().
Md5HexDigest(bs) == BytesHex(Md5Digest(bs))

(***************************************************************************)
(* int(str): optional surrounding whitespace, an optional sign, decimal    *)
(* digits with single underscores allowed between digits.  int() also      *)
(* takes decimal digits outside ASCII; none occurs in Alphabet.            *)
(***************************************************************************)
IsSpace(c) ==
  c \in (9..13) \cup (28..32) \cup {133, 160, 5760, 8232, 8233, 8239, 8287, 12288}
        \cup (8192..8202)

IsDigit(c) == c >= 48 /\ c <= 57

RECURSIVE LStrip(_)
LStrip(s) == IF s # <<>> /\ IsSpace(Head(s)) THEN LStrip(Tail(s)) ELSE s

RECURSIVE RStrip(_)
RStrip(s) ==
  IF s # <<>> /\ IsSpace(s[Len(s)]) THEN RStrip(SubSeq(s, 1, Len(s) - 1)) ELSE s

DigitsOk(s) ==
  /\ Len(s) > 0
  /\ IsDigit(s[1])
  /\ IsDigit(s[Len(s)])
  /\ \A i \in 1..Len(s) :
       IsDigit(s[i]) \/ (s[i] = 95 /\ IsDigit(s[i - 1]) /\ IsDigit(s[i + 1]))

\* Value of the digits s[1..i], underscores skipped.
RECURSIVE DecValue(_, _)
DecValue(s, i) ==
  IF i = 0 THEN 0
  ELSE IF s[i] = 95 THEN DecValue(s, i - 1)
  ELSE 10 * DecValue(s, i - 1) + (s[i] - 48)

\* [ok |-> FALSE] stands for the ValueError int() raises.
ParseInt(s) ==
  LET t == RStrip(LStrip(s))
      signed == t # <<>> /\ Head(t) \in {43, 45}
      body == IF signed THEN Tail(t) ELSE t
  IN IF DigitsOk(body)
       THEN [ok |-> TRUE,
             val |-> IF signed /\ Head(t) = 45
                       THEN 0 - DecValue(body, Len(body))
                       ELSE DecValue(body, Len(body))]
       ELSE [ok |-> FALSE, val |-> 0]

(***************************************************************************)
(* Values and call outcomes                                                *)
(***************************************************************************)
\* A Python value by its type; bool is a subclass of int.
IntVal(n) == [type |-> "int", int |-> n, str |-> <<>>]
StrVal(s) == [type |-> "str", int |-> 0, str |-> s]
OtherVal(t) == [type |-> t, int |-> 0, str |-> <<>>]
BoolVal(b) == [type |-> "bool", int |-> b, str |-> <<>>]

\* isinstance(data, int), isinstance(data, str)
IsInt(d) == d.type \in {"int", "bool"}
IsStr(d) == d.type = "str"

Values ==
  {IntVal(n) : n \in (0 - MaxInt)..MaxInt} \cup {StrVal(s) : s \in Texts}
    \cup {OtherVal(t) : t \in {"NoneType", "bytes", "float"}}
    \cup {BoolVal(b) : b \in {0, 1}}

\* A call returns a text or raises; log holds what it logged on the way.
Return(v) == [kind |-> "ok", val |-> v, msg |-> "", log |-> <<>>]
Raise(k, m, l) == [kind |-> k, val |-> <<>>, msg |-> m, log |-> l]
NoResult == [kind |-> "none", val |-> <<>>, msg |-> "", log |-> <<>>]

\* str.encode('utf-8') on a text with a lone surrogate: UnicodeEncodeError,
\* a subclass of ValueError.
EncodeError(l) == Raise("ValueError", "surrogates not allowed", l)

(***************************************************************************)
(* DataTypeConverter                                                       *)
(***************************************************************************)
\* Variant: a text of digits converted as the integer it spells.
ToHexDigitsAsInt(d) ==
  IF IsInt(d) THEN Return(PyHex(d.int))
  ELSE IF IsStr(d)
    THEN IF ParseInt(d.str).ok THEN Return(PyHex(ParseInt(d.str).val))
         ELSE IF Encodable(d.str) THEN Return(BytesHex(Utf8Encode(d.str)))
         ELSE EncodeError(<<"Error converting to hex">>)
  ELSE Raise("TypeError", "Input must be an integer or string.",
             <<"Unexpected error during hex conversion">>)

ToHex(d) ==
  IF IsInt(d) THEN Return(PyHex(d.int))
  ELSE IF IsStr(d)
    THEN IF Encodable(d.str) THEN Return(BytesHex(Utf8Encode(d.str)))
         ELSE EncodeError(<<"Error converting to hex">>)
  ELSE Raise("TypeError", "Input must be an integer or string.",
             <<"Unexpected error during hex conversion">>)

ToBase64(d) ==
  IF ~IsStr(d) THEN Raise("TypeError", "Input must be a string.", <<>>)
  ELSE IF Encodable(d.str)
    THEN Return(Utf8Decode(B64Encode(Utf8Encode(d.str))))
  ELSE EncodeError(<<"Error converting to base64">>)

ToMd5(d) ==
  IF ~IsStr(d) THEN Raise("TypeError", "Input must be a string.", <<>>)
  ELSE IF Encodable(d.str) THEN Return(Md5HexDigest(Utf8Encode(d.str)))
  ELSE EncodeError(<<"Unexpected error during MD5 hash generation">>)

\* methods = [self.to_hex, self.to_base64, self.to_md5]
Methods == <<"to_hex", "to_base64", "to_md5">>

\* chosen_method(data)
Apply(m, d) ==
  IF m = "to_hex" THEN ToHex(d)
  ELSE IF m = "to_base64" THEN ToBase64(d)
  ELSE ToMd5(d)

\* Variant: the hex choice parses the text as an integer first, as main does.
RandomlyConvertParsesInt(d, k) ==
  IF ~IsStr(d)
    THEN [chosen |-> "none",
          ret |-> Raise("TypeError", "Input must be a string.", <<>>)]
  ELSE [chosen |-> Methods[k],
        ret |-> IF Methods[k] = "to_hex" /\ ParseInt(d.str).ok
                  THEN ToHex(IntVal(ParseInt(d.str).val))
                  ELSE Apply(Methods[k], d)]

\* Variant: no isinstance check before the choice.
RandomlyConvertNoCheck(d, k) ==
  [chosen |-> Methods[k], ret |-> Apply(Methods[k], d)]

\* randomly_convert when random.choice(methods) yields Methods[k]; the
\* choice is made only after the type check.
RandomlyConvert(d, k) ==
  IF ~IsStr(d)
    THEN [chosen |-> "none",
          ret |-> Raise("TypeError", "Input must be a string.", <<>>)]
  ELSE LET r == Apply(Methods[k], d)
       IN [chosen |-> Methods[k],
           ret |-> IF r.kind = "ok" THEN r
                   ELSE [r EXCEPT !.log =
                           Append(@, "Error during random conversion")]]

(***************************************************************************)
(* State                                                                   *)
(***************************************************************************)
VARIABLES
  args_data,    \* main: args.data, the positional argument
  args_method,  \* main: args.method
  fault,        \* main: the runtime runs out of memory inside the conversion
  pc,           \* main: "main", "print", "except", "exit"; "lib" for direct use
  op,           \* the converter method called last, "none" before any call
  data,         \* the value that call received
  chosen,       \* the method random.choice picked in that call, or "none"
  ret,          \* the outcome of that call
  md5_first,    \* the outcome of the first direct to_md5 call
  calls,        \* main: converter calls made
  stdout,       \* main: lines printed to standard output
  stderr,       \* main: lines printed to standard error
  log,          \* main: records handed to logging
  exit_code     \* main: the process exit status, -1 while running

vars == <<args_data, args_method, fault, pc, op, data, chosen, ret, md5_first,
          calls, stdout, stderr, log, exit_code>>

libVars == <<args_data, args_method, fault, pc, calls, stdout, stderr, log,
             exit_code>>

(***************************************************************************)
(* Direct use of a DataTypeConverter object on one value                   *)
(***************************************************************************)
ConvInit ==
  /\ data \in Values
  /\ pc = "lib"
  /\ op = "none"
  /\ chosen = "none"
  /\ ret = NoResult
  /\ md5_first = NoResult
  /\ args_data = <<>>
  /\ args_method = "none"
  /\ fault = FALSE
  /\ calls = 0
  /\ stdout = <<>>
  /\ stderr = <<>>
  /\ log = <<>>
  /\ exit_code = -1

CallToHex ==
  /\ pc = "lib"
  /\ op' = "to_hex"
  /\ ret' = ToHex(data)
  /\ chosen' = "none"
  /\ UNCHANGED <<data, md5_first, libVars>>

CallToBase64 ==
  /\ pc = "lib"
  /\ op' = "to_base64"
  /\ ret' = ToBase64(data)
  /\ chosen' = "none"
  /\ UNCHANGED <<data, md5_first, libVars>>

CallToMd5 ==
  /\ pc = "lib"
  /\ op' = "to_md5"
  /\ ret' = ToMd5(data)
  /\ chosen' = "none"
  /\ md5_first' = IF md5_first.kind = "none" THEN ret' ELSE md5_first
  /\ UNCHANGED <<data, libVars>>

CallRandomlyConvert ==
  /\ pc = "lib"
  /\ \E k \in 1..Len(Methods) :
       LET r == RandomlyConvert(data, k)
       IN /\ op' = "randomly_convert"
          /\ ret' = r.ret
          /\ chosen' = r.chosen
  /\ UNCHANGED <<data, md5_first, libVars>>

ConvNext == CallToHex \/ CallToBase64 \/ CallToMd5 \/ CallRandomlyConvert

ConvSpec == ConvInit /\ [][ConvNext]_vars

(***************************************************************************)
(* main(), after parse_args has accepted the command line                  *)
(***************************************************************************)
\* choices=["hex", "base64", "md5", "random"], default="random"
MethodChoices == {"hex", "base64", "md5", "random"}

MainInit ==
  /\ args_data \in Texts
  /\ args_method \in MethodChoices
  /\ pc = "main"
  /\ op = "none"
  /\ data = OtherVal("NoneType")
  /\ chosen = "none"
  /\ ret = NoResult
  /\ md5_first = NoResult
  /\ calls = 0
  /\ stdout = <<>>
  /\ stderr = <<>>
  /\ log = <<>>
  /\ exit_code = -1

Init == MainInit /\ fault = FALSE

\* Variant: method hex never tries the integer parse.
MainCallTextOnly(method, arg) ==
  IF method = "hex" THEN [op |-> "to_hex", data |-> StrVal(arg)]
  ELSE IF method = "base64" THEN [op |-> "to_base64", data |-> StrVal(arg)]
  ELSE IF method = "md5" THEN [op |-> "to_md5", data |-> StrVal(arg)]
  ELSE [op |-> "randomly_convert", data |-> StrVal(arg)]

\* Variant: the integer parse is tried for every method.
MainCallParsesAlways(method, arg) ==
  LET n == ParseInt(arg)
      d == IF n.ok THEN IntVal(n.val) ELSE StrVal(arg)
  IN IF method = "hex" THEN [op |-> "to_hex", data |-> d]
     ELSE IF method = "base64" THEN [op |-> "to_base64", data |-> d]
     ELSE IF method = "md5" THEN [op |-> "to_md5", data |-> d]
     ELSE [op |-> "randomly_convert", data |-> d]

\* The converter method main calls and the value it hands over.
MainCall(method, arg) ==
  IF method = "hex"
    THEN LET n == ParseInt(arg)
         IN [op |-> "to_hex", data |-> IF n.ok THEN IntVal(n.val) ELSE StrVal(arg)]
  ELSE IF method = "base64" THEN [op |-> "to_base64", data |-> StrVal(arg)]
  ELSE IF method = "md5" THEN [op |-> "to_md5", data |-> StrVal(arg)]
  ELSE [op |-> "randomly_convert", data |-> StrVal(arg)]

\* The call's outcome; k is what random.choice yields if it is consulted.
Invoke(o, d, k) ==
  IF o = "to_hex" THEN [chosen |-> "none", ret |-> ToHex(d)]
  ELSE IF o = "to_base64" THEN [chosen |-> "none", ret |-> ToBase64(d)]
  ELSE IF o = "to_md5" THEN [chosen |-> "none", ret |-> ToMd5(d)]
  ELSE RandomlyConvert(d, k)

\* MemoryError raised by an allocation inside the called method; str(e) is
\* empty.  Every method logs and re-raises it.
OutOfMemory ==
  [chosen |-> "none",
   ret |-> Raise("MemoryError", "", <<"Unexpected error during conversion">>)]

\* The try body up to the print: the dispatch on args.method and the call.
MainConvert ==
  /\ pc = "main"
  /\ \E k \in 1..Len(Methods) :
       LET c == MainCall(args_method, args_data)
           r == IF fault THEN OutOfMemory ELSE Invoke(c.op, c.data, k)
       IN /\ op' = c.op
          /\ data' = c.data
          /\ chosen' = r.chosen
          /\ ret' = r.ret
          /\ pc' = IF r.ret.kind = "ok" THEN "print" ELSE "except"
  /\ calls' = calls + 1
  /\ UNCHANGED <<args_data, args_method, fault, md5_first, stdout, stderr, log,
                 exit_code>>

\* print(...), then the normal return of main.
MainPrint ==
  /\ pc = "print"
  /\ stdout' = Append(stdout, [prefix |-> "Converted data: ", text |-> ret.val])
  /\ pc' = "exit"
  /\ exit_code' = 0
  /\ UNCHANGED <<args_data, args_method, fault, op, data, chosen, ret, md5_first,
                 calls, stderr, log>>

\* Variant: the handlers report and return without sys.exit(1).
MainExceptNoExit ==
  /\ pc = "except"
  /\ log' = Append(ret.log, "error")
  /\ stderr' = Append(stderr,
       [prefix |-> IF ret.kind \in {"TypeError", "ValueError"} THEN "Error: "
                   ELSE "An unexpected error occurred: ",
        msg |-> ret.msg])
  /\ pc' = "exit"
  /\ exit_code' = 0
  /\ UNCHANGED <<args_data, args_method, fault, op, data, chosen, ret, md5_first,
                 calls, stdout>>

\* Variant: the handlers print what the failed call left behind before exiting.
MainExceptPrintsPartial ==
  /\ pc = "except"
  /\ log' = Append(ret.log, "error")
  /\ stdout' = Append(stdout, [prefix |-> "Converted data: ", text |-> ret.val])
  /\ stderr' = Append(stderr, [prefix |-> "Error: ", msg |-> ret.msg])
  /\ pc' = "exit"
  /\ exit_code' = 1
  /\ UNCHANGED <<args_data, args_method, fault, op, data, chosen, ret, md5_first,
                 calls>>

\* The three except clauses of main.
MainExcept ==
  /\ pc = "except"
  /\ log' = ret.log \o
       <<IF ret.kind = "TypeError" THEN "Type error"
         ELSE IF ret.kind = "ValueError" THEN "Value error"
         ELSE "An unexpected error occurred">>
  /\ stderr' = Append(stderr,
       [prefix |-> IF ret.kind \in {"TypeError", "ValueError"} THEN "Error: "
                   ELSE "An unexpected error occurred: ",
        msg |-> ret.msg])
  /\ pc' = "exit"
  /\ exit_code' = 1
  /\ UNCHANGED <<args_data, args_method, fault, op, data, chosen, ret, md5_first,
                 calls, stdout>>

Next == MainConvert \/ MainPrint \/ MainExcept

Spec == Init /\ [][Next]_vars

\* The same program on a runtime that may run out of memory.
FaultInit == MainInit /\ fault \in BOOLEAN

FaultSpec == FaultInit /\ [][Next]_vars

(***************************************************************************)
(* Reading the outputs back: what a reader of the produced text sees       *)
(***************************************************************************)
IsLowerHex(c) == (c >= 48 /\ c <= 57) \/ (c >= 97 /\ c <= 102)

AllLowerHex(t) == \A i \in 1..Len(t) : IsLowerHex(t[i])

HexVal(c) == IF c <= 57 THEN c - 48 ELSE c - 87

\* The number a string of hexadecimal digits denotes.
RECURSIVE HexValue(_)
HexValue(t) ==
  IF t = <<>> THEN 0
  ELSE 16 * HexValue(SubSeq(t, 1, Len(t) - 1)) + HexVal(t[Len(t)])

\* bytes.fromhex of an even-length string of hexadecimal digits.
HexToBytes(t) ==
  [i \in 1..(Len(t) \div 2) |-> 16 * HexVal(t[2 * i - 1]) + HexVal(t[2 * i])]

B64Val(c) ==
  IF c >= 65 /\ c <= 90 THEN c - 65
  ELSE IF c >= 97 /\ c <= 122 THEN c - 71
  ELSE IF c >= 48 /\ c <= 57 THEN c + 4
  ELSE IF c = 43 THEN 62
  ELSE IF c = 47 THEN 63
  ELSE -1

\* RFC 4648 with padding: whole quads, '=' only as the last one or two
\* characters.
B64Valid(t) ==
  /\ Len(t) % 4 = 0
  /\ \A i \in 1..Len(t) :
       \/ B64Val(t[i]) >= 0
       \/ /\ t[i] = 61
          /\ i >= Len(t) - 1
          /\ (i = Len(t) - 1 => t[Len(t)] = 61)

RECURSIVE B64DecodeFrom(_, _)
B64DecodeFrom(t, i) ==
  IF i > Len(t) THEN <<>>
  ELSE LET a == B64Val(t[i])
           b == B64Val(t[i + 1])
           c == B64Val(t[i + 2])
           d == B64Val(t[i + 3])
       IN IF t[i + 2] = 61 THEN <<a * 4 + (b \div 16)>>
          ELSE IF t[i + 3] = 61
            THEN <<a * 4 + (b \div 16), (b % 16) * 16 + (c \div 4)>>
          ELSE <<a * 4 + (b \div 16), (b % 16) * 16 + (c \div 4), (c % 4) * 64 + d>>
               \o B64DecodeFrom(t, i + 4)

B64Decode(t) == B64DecodeFrom(t, 1)

Abs(n) == IF n < 0 THEN 0 - n ELSE n

\* Two outcomes a caller cannot tell apart.
Same(r1, r2) == r1.kind = r2.kind /\ r1.val = r2.val /\ r1.msg = r2.msg

(***************************************************************************)
(* Properties                                                              *)
(***************************************************************************)

\* C1 as stated: for every integer n, negative ones included, to_hex(n)
\* starts with "0x" and what follows are the lowercase base-16 digits of n.
C1_AlwaysStartsWith0x ==
  (op = "to_hex" /\ data.type = "int") =>
    /\ ret.kind = "ok"
    /\ Len(ret.val) >= 3
    /\ ret.val[1] = 48
    /\ ret.val[2] = 120
    /\ AllLowerHex(SubSeq(ret.val, 3, Len(ret.val)))
    /\ HexValue(SubSeq(ret.val, 3, Len(ret.val))) = Abs(data.int)

\* C1 amended: to_hex(n) is "0x" followed by the lowercase base-16 digits of
\* n without leading zeros when n >= 0, and '-' followed by that form of -n
\* when n < 0.
C1_IntHexForm ==
  (op = "to_hex" /\ data.type = "int") =>
    /\ ret.kind = "ok"
    /\ ret.val # <<>>
    /\ (data.int < 0) = (ret.val[1] = 45)
    /\ LET body == IF data.int < 0 THEN Tail(ret.val) ELSE ret.val
           digits == SubSeq(body, 3, Len(body))
       IN /\ Len(body) >= 3
          /\ body[1] = 48
          /\ body[2] = 120
          /\ AllLowerHex(digits)
          /\ (Len(digits) > 1 => digits[1] # 48)
          /\ HexValue(digits) = Abs(data.int)

\* to_hex(-26) has returned "-0x1a".
C1_Witness ==
  op = "to_hex" /\ data = IntVal(-26) /\ ret = Return(<<45, 48, 120, 49, 97>>)

\* C2: for a text s, to_hex(s) is two lowercase hexadecimal digits per UTF-8
\* byte of s, in byte order, with no prefix and no separator, also when s is
\* all decimal digits; a text with no UTF-8 encoding raises a ValueError.
C2_TextHexIsUtf8Hex ==
  (op = "to_hex" /\ IsStr(data)) =>
    IF Encodable(data.str)
      THEN /\ ret.kind = "ok"
           /\ Len(ret.val) = 2 * Len(Utf8Encode(data.str))
           /\ AllLowerHex(ret.val)
           /\ HexToBytes(ret.val) = Utf8Encode(data.str)
           /\ Utf8ValidFrom(HexToBytes(ret.val), 1)
           /\ Utf8Decode(HexToBytes(ret.val)) = data.str
      ELSE ret.kind = "ValueError" /\ ret.val = <<>>

\* to_hex("42") has returned "3432".
C2_Witness ==
  op = "to_hex" /\ data = StrVal(<<52, 50>>) /\ ret = Return(<<51, 52, 51, 50>>)

\* C3: for a text s, to_base64(s) has a length that is a multiple of 4, is
\* padded RFC 4648 base64, and base64-decoding it and UTF-8-decoding the
\* bytes gives s back; a text with no UTF-8 encoding raises a ValueError.
C3_Base64RoundTrip ==
  (op = "to_base64" /\ IsStr(data)) =>
    IF Encodable(data.str)
      THEN /\ ret.kind = "ok"
           /\ Len(ret.val) % 4 = 0
           /\ B64Valid(ret.val)
           /\ Utf8ValidFrom(B64Decode(ret.val), 1)
           /\ Utf8Decode(B64Decode(ret.val)) = data.str
      ELSE ret.kind = "ValueError" /\ ret.val = <<>>

\* to_base64("a") has returned "YQ==".
C3_Witness ==
  op = "to_base64" /\ data = StrVal(<<97>>) /\ ret = Return(<<89, 81, 61, 61>>)

\* C4: whatever random.choice yields, randomly_convert(s) on a text s ends
\* as to_hex(s) on the text, to_base64(s) or to_md5(s) ends, and as nothing
\* else.
C4_RandomIsOneOfThree ==
  (op = "randomly_convert" /\ IsStr(data)) =>
    /\ chosen \in {"to_hex", "to_base64", "to_md5"}
    /\ IF Encodable(data.str)
         THEN /\ ret.kind = "ok"
              /\ \/ ret.val = BytesHex(Utf8Encode(data.str))
                 \/ ret.val = Utf8Decode(B64Encode(Utf8Encode(data.str)))
                 \/ ret.val = Md5HexDigest(Utf8Encode(data.str))
         ELSE Same(ret, ToHex(data)) \/ Same(ret, ToBase64(data))
                \/ Same(ret, ToMd5(data))

\* randomly_convert("42") picked to_hex and returned "3432".
C4_Witness ==
  /\ op = "randomly_convert"
  /\ data = StrVal(<<52, 50>>)
  /\ chosen = "to_hex"
  /\ ret = Return(<<51, 52, 51, 50>>)

\* C5: to_base64, to_md5 and randomly_convert raise a TypeError and return
\* nothing for every input that is not a text, randomly_convert before any
\* method is chosen; to_hex does so for every input that is neither an
\* integer nor a text.
C5_TypeErrors ==
  /\ (op \in {"to_base64", "to_md5", "randomly_convert"} /\ data.type # "str")
       => (ret.kind = "TypeError" /\ ret.val = <<>>)
  /\ (op = "randomly_convert" /\ data.type # "str") => chosen = "none"
  /\ (op = "to_hex" /\ data.type \notin {"int", "bool", "str"})
       => (ret.kind = "TypeError" /\ ret.val = <<>>)

\* randomly_convert(42) has raised a TypeError with no method chosen.
C5_Witness ==
  /\ op = "randomly_convert"
  /\ data = IntVal(42)
  /\ ret.kind = "TypeError"
  /\ chosen = "none"

\* C6: with method hex, main calls to_hex exactly once: on the integer the
\* argument parses to when it parses ("42" gives "0x2a"), and on the argument
\* as a text only when it does not parse ("abc" gives "616263").
C6_HexParsesIntFirst ==
  /\ (args_method = "hex" /\ pc # "main") =>
       /\ op = "to_hex"
       /\ calls = 1
       /\ IF ParseInt(args_data).ok
            THEN /\ data = IntVal(ParseInt(args_data).val)
                 /\ ret.kind = "ok"
                 /\ ret.val # <<>>
                 /\ HexValue(SubSeq(ret.val, IF ret.val[1] = 45 THEN 4 ELSE 3,
                                    Len(ret.val))) = Abs(ParseInt(args_data).val)
            ELSE /\ data = StrVal(args_data)
                 /\ IF Encodable(args_data)
                      THEN ret = Return(BytesHex(Utf8Encode(args_data)))
                      ELSE ret.kind = "ValueError"
  /\ (args_method = "hex" /\ pc # "main" /\ args_data = <<52, 50>>)
       => ret = Return(<<48, 120, 50, 97>>)
  /\ LET c == MainCall("hex", <<97, 98, 99>>)
     IN Invoke(c.op, c.data, 1).ret = Return(<<54, 49, 54, 50, 54, 51>>)

\* main with method hex and argument "42" has printed "0x2a".
C6_Witness ==
  /\ args_method = "hex"
  /\ args_data = <<52, 50>>
  /\ pc = "exit"
  /\ data = IntVal(42)
  /\ stdout = <<[prefix |-> "Converted data: ", text |-> <<48, 120, 50, 97>>]>>

C8_TwoTerminalOutcomes ==
  /\ calls <= 1
  /\ pc # "exit" => (exit_code = -1 /\ stdout = <<>>)
  /\ pc = "exit" =>
       /\ calls = 1
       /\ \/ /\ exit_code = 0
             /\ ret.kind = "ok"
             /\ stdout = <<[prefix |-> "Converted data: ", text |-> ret.val]>>
             /\ stderr = <<>>
          \/ /\ exit_code = 1
             /\ ret.kind # "ok"
             /\ stdout = <<>>
             /\ Len(stderr) = 1

\* main has exited with 1 after a ValueError, standard output empty.
C8_Witness ==
  /\ pc = "exit"
  /\ exit_code = 1
  /\ ret.kind = "ValueError"
  /\ stdout = <<>>
  /\ calls = 1

C10_RandomNeverParsesInt ==
  (args_method = "random" /\ pc # "main") =>
    /\ op = "randomly_convert"
    /\ data = StrVal(args_data)
    /\ chosen \in {"to_hex", "to_base64", "to_md5"}
    /\ IF Encodable(args_data)
         THEN /\ ret.kind = "ok"
              /\ \/ ret.val = BytesHex(Utf8Encode(args_data))
                 \/ ret.val = Utf8Decode(B64Encode(Utf8Encode(args_data)))
                 \/ ret.val = Md5HexDigest(Utf8Encode(args_data))
         ELSE ret.kind = "ValueError"
    /\ ParseInt(args_data).ok => ret.val # PyHex(ParseInt(args_data).val)

\* main with method random and argument "42" has printed "3432".
C10_Witness ==
  /\ args_method = "random"
  /\ args_data = <<52, 50>>
  /\ pc = "exit"
  /\ stdout = <<[prefix |-> "Converted data: ", text |-> <<51, 52, 51, 50>>]>>
====
